---- MODULE Spec2Model ----
(***************************************************************************)
(* A model of the Slack console (django_app): the SlackService adapter     *)
(* (slack_service.py), the SlackMessage / SlackToken tables (models.py)    *)
(* and the request handlers (views.py).                                     *)
(*                                                                         *)
(* Conventions                                                             *)
(*   - An optional value (Python None or a value) is a sequence of length  *)
(*     0 or 1: None == <<>>, Some(x) == <<x>>.                             *)
(*   - A Python dict with optional keys is a record; a key that is absent  *)
(*     is absent from the record's DOMAIN.                                 *)
(*   - Form fields that the handlers .strip() are sequences of one-letter  *)
(*     strings, so that stripping is computed; identifiers are strings.    *)
(*   - A remote (Slack Web API) call has an outcome: it returns data       *)
(*     ("ok"), raises SlackApiError ("api_error") or raises any other      *)
(*     exception ("fault": network fault, undecodable response, ...).      *)
(***************************************************************************)
EXTENDS Naturals, Sequences, FiniteSets, TLC

VARIABLES
    tokens,     \* the SlackToken table, in insertion order (id = index)
    msgs,       \* the SlackMessage table, in insertion order (id = index)
    session,    \* request.session['current_token_id'], optional
    now,        \* timezone.now(), a logical clock
    req,        \* the request (operation and inputs) handled last
    svc,        \* what the SlackService call of that request produced
    resp,       \* the handler's response to that request
    pc,         \* per worker: the position of a handler running concurrently
    effects     \* what handling that request did besides: the adapter
                \* methods invoked, the remote calls issued and the log
                \* records emitted, in order

vars == <<tokens, msgs, session, now, req, svc, resp, pc, effects>>

-----------------------------------------------------------------------------
(* Bounds of the model *)

MaxConvs == 2       \* conversations per remote collection
MaxHist == 3        \* entries in a remote channel history
MaxLimit == 3       \* largest limit asked of get_channel_history
MaxRows == 3        \* SlackMessage rows created through the model layer
MaxTokens == 2      \* SlackToken rows
MaxClock == 3       \* readings of the clock
MaxWorkers == 2     \* requests handled at the same time
MaxMsgs == 22       \* SlackMessage rows stored when the dashboard is shown

-----------------------------------------------------------------------------
(* Python values *)

None == <<>>
Some(x) == <<x>>

\* no request handled yet; no adapter call made
NoRequest == [op |-> "none"]
NoCall == [none |-> TRUE]

\* dict.get(k, default)
Get(d, k, default) == IF k \in DOMAIN d THEN d[k] ELSE default

\* dict.get(k): None when absent
GetOpt(d, k) == IF k \in DOMAIN d THEN Some(d[k]) ELSE None

\* truth value of an optional string: None and "" are falsy
Truthy(o) == o # None /\ o[1] # ""

SeqsUpTo(S, n) == UNION {[1..k -> S] : k \in 0..n}

-----------------------------------------------------------------------------
(* The remote service: outcomes of one Web API call *)

Ok(d) == [kind |-> "ok", data |-> d]
ApiError(m) == [kind |-> "api_error", msg |-> m]
Fault(m) == [kind |-> "fault", msg |-> m]

\* the ways a remote call can fail
Failures ==
    { ApiError("The request to the Slack API failed."),
      Fault("Connection error") }

-----------------------------------------------------------------------------
(* SlackService (slack_service.py) *)

\* What a method that raised leaves its caller with
Raised(m) == [raised |-> m]

IsEnvelope(r) == "success" \in DOMAIN r

\* The except clause every method ends with: SlackApiError becomes a failure
\* envelope; nothing else is caught.
Except(o) ==
    IF o.kind = "api_error"
    THEN [success |-> FALSE, error |-> o.msg]
    ELSE Raised(o.msg)

test_auth(auth) ==
    IF auth.kind = "ok"
    THEN [success |-> TRUE, data |-> auth.data]
    ELSE Except(auth)


\* real_name or name
Or(a, b) == IF a # "" THEN a ELSE b

PublicEntry(channel) ==
    [id |-> channel.id,
     name |-> "#" \o channel.name,
     type |-> "public_channel",
     is_member |-> Get(channel, "is_member", FALSE)]

PrivateEntry(channel) ==
    [id |-> channel.id,
     name |-> "#" \o channel.name,
     type |-> "private_channel",
     is_member |-> Get(channel, "is_member", FALSE)]

DmEntry(dm, user_info) ==
    [id |-> dm.id,
     name |-> "@" \o Or(user_info.user.real_name, user_info.user.name),
     type |-> "im",
     is_member |-> TRUE]

\* The loop over the direct-message conversations: one users_info call per
\* conversation, in order; the first call that raises ends the loop with
\* that exception.
RECURSIVE DmEntries(_, _)
DmEntries(dms, users_info) ==
    IF dms = <<>> THEN Ok(<<>>)
    ELSE LET user_info == users_info[Head(dms).user]
         IN  IF user_info.kind # "ok" THEN user_info
             ELSE LET rest == DmEntries(Tail(dms), users_info)
                  IN  IF rest.kind # "ok" THEN rest
                      ELSE Ok(<<DmEntry(Head(dms), user_info.data)>> \o rest.data)

\* conversations_list is the outcome of each of the three list calls, by
\* type; users_info the outcome of the lookup of each user id.
get_channels(conversations_list, users_info) ==
    LET public_channels == conversations_list.public_channel
        private_channels == conversations_list.private_channel
        dms == conversations_list.im
    IN  IF public_channels.kind # "ok" THEN Except(public_channels)
        ELSE IF private_channels.kind # "ok" THEN Except(private_channels)
        ELSE IF dms.kind # "ok" THEN Except(dms)
        ELSE LET pub == public_channels.data.channels
                 priv == private_channels.data.channels
                 ims == DmEntries(dms.data.channels, users_info)
             IN  IF ims.kind # "ok" THEN Except(ims)
                 ELSE [success |-> TRUE,
                       channels |->
                           [i \in 1..Len(pub) |-> PublicEntry(pub[i])]
                           \o [i \in 1..Len(priv) |-> PrivateEntry(priv[i])]
                           \o ims.data]

\* chat_postMessage is the outcome of the one remote call
post_message(channel_id, text, chat_postMessage) ==
    IF chat_postMessage.kind = "ok"
    THEN [success |-> TRUE, message |-> chat_postMessage.data]
    ELSE Except(chat_postMessage)

post_reply(channel_id, thread_ts, text, chat_postMessage) ==
    IF chat_postMessage.kind = "ok"
    THEN [success |-> TRUE, message |-> chat_postMessage.data]
    ELSE Except(chat_postMessage)

\* The arguments post_reply passes to chat_postMessage
post_reply_request(channel_id, thread_ts, text) ==
    [channel |-> channel_id, thread_ts |-> thread_ts, text |-> text]

\* The arguments post_thread_reply passes to chat_postMessage
post_thread_reply_request(channel_id, thread_ts, text) ==
    [channel |-> channel_id, text |-> text, thread_ts |-> thread_ts]

\* post_thread_reply, the adapter's other reply entry point: the remote
\* message on success, the error string on failure, with the generic
\* prefix for a failure that is not a rejection
post_thread_reply(channel_id, thread_ts, text, chat_postMessage) ==
    IF chat_postMessage.kind = "ok"
    THEN [success |-> TRUE, message |-> chat_postMessage.data]
    ELSE IF chat_postMessage.kind = "api_error"
    THEN [success |-> FALSE, error |-> chat_postMessage.msg]
    ELSE [success |-> FALSE,
          error |-> "Unexpected error: " \o chat_postMessage.msg]

Min(a, b) == IF a <= b THEN a ELSE b

\* The remote conversations.history call: remote is the channel's history,
\* newest first, or the way the call fails; the service returns at most
\* limit entries of it.
conversations_history(remote, channel, limit) ==
    IF remote.kind = "ok"
    THEN Ok([messages |-> SubSeq(remote.data, 1, Min(limit, Len(remote.data)))])
    ELSE remote

\* A variant that keeps the entries carrying a subtype
IsUserMessage_KeepsSubtypes(message) ==
    GetOpt(message, "type") = Some("message")

IsUserMessage(message) ==
    GetOpt(message, "type") = Some("message")
        /\ ~Truthy(GetOpt(message, "subtype"))

\* A variant that takes a message without parent for its own parent
HistoryEntry_OwnParent(message) ==
    [ts |-> message.ts,
     text |-> message.text,
     user |-> GetOpt(message, "user"),
     thread_ts |-> Some(Get(message, "thread_ts", message.ts)),
     reply_count |-> Get(message, "reply_count", 0)]

HistoryEntry(message) ==
    [ts |-> message.ts,
     text |-> message.text,
     user |-> GetOpt(message, "user"),
     thread_ts |-> GetOpt(message, "thread_ts"),
     reply_count |-> Get(message, "reply_count", 0)]

get_channel_history(channel_id, limit, remote) ==
    LET response == conversations_history(remote, channel_id, limit)
    IN  IF response.kind # "ok" THEN Except(response)
        ELSE LET kept == SelectSeq(response.data.messages, IsUserMessage)
             IN  [success |-> TRUE,
                  messages |-> [i \in 1..Len(kept) |-> HistoryEntry(kept[i])]]

\* What a method does besides returning: the remote calls it issues, with
\* their arguments, and the log records it emits
RemoteCall(method, args) ==
    [layer |-> "remote", method |-> method, args |-> args]

\* What the except clause of a method writes to the log: nothing. The
\* module has no logger.
ExceptLog(operation, o) == <<>>

test_auth_effects(auth) ==
    <<RemoteCall("auth_test", <<>>)>>
        \o (IF auth.kind = "ok" THEN <<>> ELSE ExceptLog("test_auth", auth))

\* The users_info calls of the loop over the direct-message conversations:
\* one per conversation, up to and including the first that raises
RECURSIVE LookupCalls(_, _)
LookupCalls(dms, users_info) ==
    IF dms = <<>> THEN <<>>
    ELSE <<RemoteCall("users_info", [user |-> Head(dms).user])>>
             \o (IF users_info[Head(dms).user].kind # "ok" THEN <<>>
                 ELSE LookupCalls(Tail(dms), users_info))

get_channels_effects(conversations_list, users_info) ==
    LET list(t) == RemoteCall("conversations_list", [types |-> t])
        public_channels == conversations_list.public_channel
        private_channels == conversations_list.private_channel
        dms == conversations_list.im
        failed(o) == ExceptLog("get_channels", o)
    IN  IF public_channels.kind # "ok"
        THEN <<list("public_channel")>> \o failed(public_channels)
        ELSE IF private_channels.kind # "ok"
        THEN <<list("public_channel"), list("private_channel")>>
                 \o failed(private_channels)
        ELSE IF dms.kind # "ok"
        THEN <<list("public_channel"), list("private_channel"), list("im")>>
                 \o failed(dms)
        ELSE LET ims == DmEntries(dms.data.channels, users_info)
             IN  <<list("public_channel"), list("private_channel"),
                   list("im")>>
                     \o LookupCalls(dms.data.channels, users_info)
                     \o (IF ims.kind # "ok" THEN failed(ims) ELSE <<>>)

post_message_effects(channel_id, text, chat_postMessage) ==
    <<RemoteCall("chat_postMessage", [channel |-> channel_id, text |-> text])>>
        \o (IF chat_postMessage.kind = "ok" THEN <<>>
            ELSE ExceptLog("post_message", chat_postMessage))

post_reply_effects(channel_id, thread_ts, text, chat_postMessage) ==
    <<RemoteCall("chat_postMessage",
                 post_reply_request(channel_id, thread_ts, text))>>
        \o (IF chat_postMessage.kind = "ok" THEN <<>>
            ELSE ExceptLog("post_reply", chat_postMessage))

post_thread_reply_effects(channel_id, thread_ts, text, chat_postMessage) ==
    <<RemoteCall("chat_postMessage",
                 post_thread_reply_request(channel_id, thread_ts, text))>>

get_channel_history_effects(channel_id, limit, remote) ==
    <<RemoteCall("conversations_history",
                 [channel |-> channel_id, limit |-> limit])>>
        \o (IF remote.kind = "ok" THEN <<>>
            ELSE ExceptLog("get_channel_history", remote))

-----------------------------------------------------------------------------
(* SlackMessage (models.py) *)

\* A row of the SlackMessage table
SlackMessage(channel_id, channel_name, message_ts, text, thread_ts, user_id, created_at) ==
    [channel_id |-> channel_id,
     channel_name |-> channel_name,
     message_ts |-> message_ts,
     text |-> text,
     thread_ts |-> thread_ts,
     user_id |-> user_id,
     created_at |-> created_at]

\* message_ts is unique: the table refuses a row whose message_ts is stored
UniqueViolation(table, row) ==
    \E i \in 1..Len(table) : table[i].message_ts = row.message_ts

\* A variant without the unique constraint on message_ts
objects_create_NoUnique(table, row) ==
    [table |-> Append(table, row), error |-> None]

\* A variant that overwrites the stored row of the same timestamp
objects_create_Upsert(table, row) ==
    IF UniqueViolation(table, row)
    THEN [table |-> [i \in 1..Len(table) |->
                        IF table[i].message_ts = row.message_ts THEN row
                        ELSE table[i]],
          error |-> None]
    ELSE [table |-> Append(table, row), error |-> None]

\* SlackMessage.objects.create(...): the new table, and the IntegrityError
\* when the row is refused
objects_create(table, row) ==
    IF UniqueViolation(table, row)
    THEN [table |-> table, error |-> Some("IntegrityError")]
    ELSE [table |-> Append(table, row), error |-> None]

is_thread_reply(m) == m.thread_ts # None

\* A variant filtering on the wrong column
get_replies_WrongColumn(table, m) ==
    IF Truthy(m.thread_ts) THEN {}
    ELSE {j \in 1..Len(table) : table[j].thread_ts = m.thread_ts}

\* m.get_replies(): the ids of the rows returned
get_replies(table, m) ==
    IF Truthy(m.thread_ts) THEN {}
    ELSE {j \in 1..Len(table) : table[j].thread_ts = Some(m.message_ts)}

\* A row of the SlackToken table
SlackToken(name, token, team_name, user_name, created_at) ==
    [name |-> name,
     token |-> token,
     team_name |-> team_name,
     user_name |-> user_name,
     is_active |-> TRUE,
     created_at |-> created_at,
     last_used |-> None]

\* A variant of the lookup that does not ask for an active row
Resolves_IgnoresActive(table, token_id) ==
    token_id \in 1..Len(table)

\* SlackToken.objects.get(id=token_id, is_active=True) finds a row
Resolves(table, token_id) ==
    /\ token_id \in 1..Len(table)
    /\ table[token_id].is_active

-----------------------------------------------------------------------------
(* The request handlers (views.py) *)

IsSpace(c) == c \in {" ", "\t", "\n"}

RECURSIVE lstrip(_)
lstrip(s) == IF s # <<>> /\ IsSpace(Head(s)) THEN lstrip(Tail(s)) ELSE s

RECURSIVE rstrip(_)
rstrip(s) ==
    IF s # <<>> /\ IsSpace(s[Len(s)])
    THEN rstrip(SubSeq(s, 1, Len(s) - 1))
    ELSE s

\* str.strip()
strip(s) == rstrip(lstrip(s))

\* A variant that does not strip the field
Field_NoStrip(value) == IF value = None THEN <<>> ELSE value[1]

\* request.POST.get(key, ''), stripped: the field may be absent
Field(value) == strip(IF value = None THEN <<>> ELSE value[1])

Digit(d) == <<"0", "1", "2", "3", "4", "5", "6", "7", "8", "9">>[d + 1]

\* str(n)
RECURSIVE str(_)
str(n) == IF n < 10 THEN <<Digit(n)>> ELSE str(n \div 10) \o <<Digit(n % 10)>>

\* A variant numbering the name one too low
TokenName_OffByOne(n) == <<"T", "o", "k", "e", "n", " ">> \o str(n - 1)

\* f"Token {n}"
TokenName(n) == <<"T", "o", "k", "e", "n", " ">> \o str(n)

\* What a handler answers
Redirect(level, message) ==
    [to |-> "home", level |-> level, message |-> message]
JsonResponse(body) == [json |-> body]
\* an exception no handler catches
ServerError(exception) == [exception |-> exception]

Pending == [pending |-> TRUE]

\* A variant without the check of the authentication's result
TokenView_post_StoresUnauthenticated(table, current, clock, token_in, name_in, auth) ==
    LET token == Field(token_in)
        name == IF Field(name_in) = <<>> THEN TokenName(Len(table) + 1)
                ELSE Field(name_in)
        auth_result == test_auth(auth)
        data == IF IsEnvelope(auth_result) /\ auth_result.success
                THEN auth_result.data ELSE <<>>
    IN  IF token = <<>>
        THEN [tokens |-> table, session |-> current, svc |-> NoCall,
              resp |-> Redirect("error", "Please provide a valid Slack token.")]
        ELSE [tokens |->
                  Append(table,
                      SlackToken(name, token, Get(data, "team", ""),
                                 Get(data, "user", ""), clock)),
              session |-> Some(Len(table) + 1),
              svc |-> auth_result,
              resp |-> Redirect("success",
                  "Token added successfully for team: " \o Get(data, "team", ""))]

\* A variant that leaves the session as it was
TokenView_post_KeepsSession(table, current, clock, token_in, name_in, auth) ==
    LET token == Field(token_in)
        name == IF Field(name_in) = <<>> THEN TokenName(Len(table) + 1)
                ELSE Field(name_in)
        auth_result == test_auth(auth)
        unchanged(called, response) ==
            [tokens |-> table, session |-> current, svc |-> called,
             resp |-> response]
    IN  IF token = <<>>
        THEN unchanged(NoCall,
                 Redirect("error", "Please provide a valid Slack token."))
        ELSE IF ~IsEnvelope(auth_result)
        THEN unchanged(auth_result, ServerError(auth_result.raised))
        ELSE IF ~auth_result.success
        THEN unchanged(auth_result,
                 Redirect("error", "Invalid token: " \o auth_result.error))
        ELSE LET team_name == Get(auth_result.data, "team", "")
                 user_name == Get(auth_result.data, "user", "")
             IN  [tokens |->
                      Append(table,
                          SlackToken(name, token, team_name, user_name, clock)),
                  session |-> current,
                  svc |-> auth_result,
                  resp |-> Redirect("success",
                      "Token added successfully for team: " \o team_name)]

\* TokenView.post: the tables and the session after the request, what the
\* adapter returned and the response
TokenView_post(table, current, clock, token_in, name_in, auth) ==
    LET token == Field(token_in)
        name == IF Field(name_in) = <<>> THEN TokenName(Len(table) + 1)
                ELSE Field(name_in)
        auth_result == test_auth(auth)
        unchanged(called, response) ==
            [tokens |-> table, session |-> current, svc |-> called,
             resp |-> response]
    IN  IF token = <<>>
        THEN unchanged(NoCall,
                 Redirect("error", "Please provide a valid Slack token."))
        ELSE IF ~IsEnvelope(auth_result)
        THEN unchanged(auth_result, ServerError(auth_result.raised))
        ELSE IF ~auth_result.success
        THEN unchanged(auth_result,
                 Redirect("error", "Invalid token: " \o auth_result.error))
        ELSE LET team_name == Get(auth_result.data, "team", "")
                 user_name == Get(auth_result.data, "user", "")
             IN  [tokens |->
                      Append(table,
                          SlackToken(name, token, team_name, user_name, clock)),
                  session |-> Some(Len(table) + 1),
                  svc |-> auth_result,
                  resp |-> Redirect("success",
                      "Token added successfully for team: " \o team_name)]

\* A variant that does not write last_used
ChannelsView_get_NoStamp(table, clock, token_id, conversations_list, users_info) ==
    IF token_id = None
    THEN [tokens |-> table, svc |-> NoCall,
          resp |-> JsonResponse(
              [success |-> FALSE, error |-> "No token selected"])]
    ELSE IF ~Resolves(table, token_id[1])
    THEN [tokens |-> table, svc |-> NoCall,
          resp |-> JsonResponse(
              [success |-> FALSE, error |-> "Invalid token"])]
    ELSE LET channels_result == get_channels(conversations_list, users_info)
         IN  [tokens |-> table, svc |-> channels_result,
              resp |-> IF IsEnvelope(channels_result)
                       THEN JsonResponse(channels_result)
                       ELSE ServerError(channels_result.raised)]

\* ChannelsView.get
ChannelsView_get(table, clock, token_id, conversations_list, users_info) ==
    IF token_id = None
    THEN [tokens |-> table, svc |-> NoCall,
          resp |-> JsonResponse(
              [success |-> FALSE, error |-> "No token selected"])]
    ELSE IF ~Resolves(table, token_id[1])
    THEN [tokens |-> table, svc |-> NoCall,
          resp |-> JsonResponse(
              [success |-> FALSE, error |-> "Invalid token"])]
    ELSE LET stamped ==
                 [table EXCEPT ![token_id[1]].last_used = Some(clock)]
             channels_result == get_channels(conversations_list, users_info)
         IN  [tokens |-> stamped, svc |-> channels_result,
              resp |-> IF IsEnvelope(channels_result)
                       THEN JsonResponse(channels_result)
                       ELSE ServerError(channels_result.raised)]

\* A variant that reads the text without stripping it
PostMessageView_call_NoStrip(table, token_id, channel_id, text_in, post) ==
    LET message_text == IF text_in = None THEN <<>> ELSE text_in[1]
    IN  IF ~(token_id # None /\ Truthy(channel_id) /\ message_text # <<>>)
        THEN [svc |-> NoCall,
              resp |-> Redirect("error", "Please fill in all required fields.")]
        ELSE IF ~Resolves(table, token_id[1])
        THEN [svc |-> NoCall,
              resp |-> Redirect("error", "Invalid token selected.")]
        ELSE LET result == post_message(channel_id[1], message_text, post)
             IN  IF ~IsEnvelope(result)
                 THEN [svc |-> result, resp |-> ServerError(result.raised)]
                 ELSE IF ~result.success
                 THEN [svc |-> result,
                       resp |-> Redirect("error",
                           "Failed to post message: " \o result.error)]
                 ELSE [svc |-> result, resp |-> Pending]

\* PostMessageView.post up to the adapter's answer: the validation, the
\* lookup of the credential and the call of post_message. resp is Pending
\* when the handler goes on to store the message.
PostMessageView_call(table, token_id, channel_id, text_in, post) ==
    LET message_text == Field(text_in)
    IN  IF ~(token_id # None /\ Truthy(channel_id) /\ message_text # <<>>)
        THEN [svc |-> NoCall,
              resp |-> Redirect("error", "Please fill in all required fields.")]
        ELSE IF ~Resolves(table, token_id[1])
        THEN [svc |-> NoCall,
              resp |-> Redirect("error", "Invalid token selected.")]
        ELSE LET result == post_message(channel_id[1], message_text, post)
             IN  IF ~IsEnvelope(result)
                 THEN [svc |-> result, resp |-> ServerError(result.raised)]
                 ELSE IF ~result.success
                 THEN [svc |-> result,
                       resp |-> Redirect("error",
                           "Failed to post message: " \o result.error)]
                 ELSE [svc |-> result, resp |-> Pending]

\* A variant that stores the text the remote service returned
PostMessageView_store_RemoteText(messages, clock, channel_id, channel_name, text_in, result) ==
    LET message_data == result.message
        row == SlackMessage(
            channel_id[1],
            IF Truthy(channel_name) THEN channel_name[1]
            ELSE "Channel " \o channel_id[1],
            message_data.ts,
            IF "message" \in DOMAIN message_data
            THEN message_data.message.text ELSE Field(text_in),
            None,
            Get(message_data, "user", "bot"),
            clock)
        created == objects_create(messages, row)
    IN  IF created.error # None
        THEN [msgs |-> messages, resp |-> ServerError(created.error[1])]
        ELSE [msgs |-> created.table,
              resp |-> Redirect("success", "Message posted successfully!")]

\* PostMessageView.post from the adapter's success on: the row is created
PostMessageView_store(messages, clock, channel_id, channel_name, text_in, result) ==
    LET message_data == result.message
        row == SlackMessage(
            channel_id[1],
            IF Truthy(channel_name) THEN channel_name[1]
            ELSE "Channel " \o channel_id[1],
            message_data.ts,
            Field(text_in),
            None,
            Get(message_data, "user", "bot"),
            clock)
        created == objects_create(messages, row)
    IN  IF created.error # None
        THEN [msgs |-> messages, resp |-> ServerError(created.error[1])]
        ELSE [msgs |-> created.table,
              resp |-> Redirect("success", "Message posted successfully!")]

\* A variant that records the message whatever the adapter answered
PostMessageView_post_StoresAlways(table, messages, clock, token_id, channel_id, channel_name, text_in, post) ==
    LET called == PostMessageView_call(table, token_id, channel_id, text_in, post)
        row == SlackMessage(
            channel_id[1],
            IF Truthy(channel_name) THEN channel_name[1]
            ELSE "Channel " \o channel_id[1],
            IF IsEnvelope(called.svc) /\ called.svc.success
            THEN called.svc.message.ts
            ELSE "unsent",
            Field(text_in),
            None,
            "bot",
            clock)
        created == objects_create(messages, row)
    IN  IF called.svc = NoCall \/ created.error # None
        THEN [msgs |-> messages, svc |-> called.svc, resp |-> called.resp]
        ELSE [msgs |-> created.table, svc |-> called.svc,
              resp |-> IF called.resp = Pending
                       THEN Redirect("success", "Message posted successfully!")
                       ELSE called.resp]

\* PostMessageView.post
PostMessageView_post(table, messages, clock, token_id, channel_id, channel_name, text_in, post) ==
    LET called == PostMessageView_call(table, token_id, channel_id, text_in, post)
        stored == PostMessageView_store(messages, clock, channel_id,
                                        channel_name, text_in, called.svc)
    IN  IF called.resp # Pending
        THEN [msgs |-> messages, svc |-> called.svc, resp |-> called.resp]
        ELSE [msgs |-> stored.msgs, svc |-> called.svc, resp |-> stored.resp]

\* PostReplyView.post up to the adapter's answer: as PostMessageView.post,
\* with the parent timestamp required too and post_reply called
PostReplyView_call(table, token_id, channel_id, thread_ts, text_in, post) ==
    LET reply_text == Field(text_in)
    IN  IF ~(/\ token_id # None /\ Truthy(channel_id) /\ Truthy(thread_ts)
             /\ reply_text # <<>>)
        THEN [svc |-> NoCall,
              resp |-> Redirect("error", "Please fill in all required fields.")]
        ELSE IF ~Resolves(table, token_id[1])
        THEN [svc |-> NoCall,
              resp |-> Redirect("error", "Invalid token selected.")]
        ELSE LET result == post_reply(channel_id[1], thread_ts[1], reply_text,
                                      post)
             IN  IF ~IsEnvelope(result)
                 THEN [svc |-> result, resp |-> ServerError(result.raised)]
                 ELSE IF ~result.success
                 THEN [svc |-> result,
                       resp |-> Redirect("error",
                           "Failed to post reply: " \o result.error)]
                 ELSE [svc |-> result, resp |-> Pending]

\* PostReplyView.post from the adapter's success on: the row is created
\* with the parent timestamp
PostReplyView_store(messages, clock, channel_id, channel_name, thread_ts, text_in, result) ==
    LET message_data == result.message
        row == SlackMessage(
            channel_id[1],
            IF Truthy(channel_name) THEN channel_name[1]
            ELSE "Channel " \o channel_id[1],
            message_data.ts,
            Field(text_in),
            thread_ts,
            Get(message_data, "user", "bot"),
            clock)
        created == objects_create(messages, row)
    IN  IF created.error # None
        THEN [msgs |-> messages, resp |-> ServerError(created.error[1])]
        ELSE [msgs |-> created.table,
              resp |-> Redirect("success", "Reply posted successfully!")]

\* PostReplyView.post
PostReplyView_post(table, messages, clock, token_id, channel_id, channel_name, thread_ts, text_in, post) ==
    LET called == PostReplyView_call(table, token_id, channel_id, thread_ts,
                                     text_in, post)
        stored == PostReplyView_store(messages, clock, channel_id,
                                      channel_name, thread_ts, text_in,
                                      called.svc)
    IN  IF called.resp # Pending
        THEN [msgs |-> messages, svc |-> called.svc, resp |-> called.resp]
        ELSE [msgs |-> stored.msgs, svc |-> called.svc, resp |-> stored.resp]

\* the limit get_channel_history takes when its caller names none
DefaultLimit == 10

\* A variant that looks the credential up before it checks the parameters
MessagesView_get_LookupFirst(table, token_id, channel_id, remote) ==
    IF token_id = None \/ ~Resolves(table, token_id[1])
    THEN [svc |-> NoCall,
          resp |-> JsonResponse(
              [success |-> FALSE, error |-> "Invalid token"])]
    ELSE IF ~Truthy(channel_id)
    THEN [svc |-> NoCall,
          resp |-> JsonResponse(
              [success |-> FALSE, error |-> "Missing parameters"])]
    ELSE LET messages_result ==
                 get_channel_history(channel_id[1], DefaultLimit, remote)
         IN  [svc |-> messages_result,
              resp |-> IF IsEnvelope(messages_result)
                       THEN JsonResponse(messages_result)
                       ELSE ServerError(messages_result.raised)]

\* MessagesView.get: the parameters are checked, the credential is looked
\* up and get_channel_history is called for the channel
MessagesView_get(table, token_id, channel_id, remote) ==
    IF ~(token_id # None /\ Truthy(channel_id))
    THEN [svc |-> NoCall,
          resp |-> JsonResponse(
              [success |-> FALSE, error |-> "Missing parameters"])]
    ELSE IF ~Resolves(table, token_id[1])
    THEN [svc |-> NoCall,
          resp |-> JsonResponse(
              [success |-> FALSE, error |-> "Invalid token"])]
    ELSE LET messages_result ==
                 get_channel_history(channel_id[1], DefaultLimit, remote)
         IN  [svc |-> messages_result,
              resp |-> IF IsEnvelope(messages_result)
                       THEN JsonResponse(messages_result)
                       ELSE ServerError(messages_result.raised)]

\* Meta.ordering = ['-created_at']: the ids of the rows, newest first. The
\* database fixes no order among rows created at the same time; ties names
\* which of them it returns first.
RECURSIVE OrderByCreated(_, _, _)
OrderByCreated(table, ids, ties) ==
    IF ids = {} THEN <<>>
    ELSE LET newest == {i \in ids :
                 \A j \in ids : table[j].created_at <= table[i].created_at}
             first == IF ties = "lowest id"
                      THEN CHOOSE i \in newest : \A j \in newest : i <= j
                      ELSE CHOOSE i \in newest : \A j \in newest : j <= i
         IN  <<first>> \o OrderByCreated(table, ids \ {first}, ties)

\* the number of messages the dashboard shows
RecentLimit == 20

\* queryset[:n]
Slice(s, n) == SubSeq(s, 1, Min(n, Len(s)))

render(template, context) == [template |-> template, context |-> context]

\* A variant that shows the oldest messages
HomeView_get_OldestKept(table, messages, ties) ==
    LET ordered == OrderByCreated(messages, 1..Len(messages), ties)
    IN  render("django_app/home.html",
            [tokens |-> OrderByCreated(table,
                 {i \in 1..Len(table) : table[i].is_active}, ties),
             recent_messages |->
                 SubSeq(ordered, Len(ordered) - Min(RecentLimit, Len(ordered)) + 1,
                        Len(ordered))])

\* HomeView.get: the context handed to the template, as the ids of the rows
HomeView_get(table, messages, ties) ==
    render("django_app/home.html",
        [tokens |-> OrderByCreated(table,
             {i \in 1..Len(table) : table[i].is_active}, ties),
         recent_messages |->
             Slice(OrderByCreated(messages, 1..Len(messages), ties),
                   RecentLimit)])


\* What a handler does besides answering: the adapter methods it invokes,
\* each followed by what that method did
AdapterCall(method) == [layer |-> "adapter", method |-> method]

TokenView_post_effects(token_in, auth) ==
    IF Field(token_in) = <<>> THEN <<>>
    ELSE <<AdapterCall("test_auth")>> \o test_auth_effects(auth)

ChannelsView_get_effects(table, token_id, conversations_list, users_info) ==
    IF token_id = None \/ ~Resolves(table, token_id[1]) THEN <<>>
    ELSE <<AdapterCall("get_channels")>>
             \o get_channels_effects(conversations_list, users_info)

\* A variant that posts again when the first post failed
PostMessageView_post_effects_Retry(table, token_id, channel_id, text_in, post) ==
    LET message_text == Field(text_in)
        once == <<AdapterCall("post_message")>>
                    \o post_message_effects(channel_id[1], message_text, post)
    IN  IF ~(token_id # None /\ Truthy(channel_id) /\ message_text # <<>>)
        THEN <<>>
        ELSE IF ~Resolves(table, token_id[1]) THEN <<>>
        ELSE IF post.kind # "ok" THEN once \o once
        ELSE once

PostMessageView_post_effects(table, token_id, channel_id, text_in, post) ==
    LET message_text == Field(text_in)
    IN  IF ~(token_id # None /\ Truthy(channel_id) /\ message_text # <<>>)
        THEN <<>>
        ELSE IF ~Resolves(table, token_id[1]) THEN <<>>
        ELSE <<AdapterCall("post_message")>>
                 \o post_message_effects(channel_id[1], message_text, post)

PostReplyView_post_effects(table, token_id, channel_id, thread_ts, text_in, post) ==
    LET reply_text == Field(text_in)
    IN  IF ~(/\ token_id # None /\ Truthy(channel_id) /\ Truthy(thread_ts)
             /\ reply_text # <<>>)
        THEN <<>>
        ELSE IF ~Resolves(table, token_id[1]) THEN <<>>
        ELSE <<AdapterCall("post_reply")>>
                 \o post_reply_effects(channel_id[1], thread_ts[1], reply_text,
                                       post)

MessagesView_get_effects(table, token_id, channel_id, remote) ==
    IF ~(token_id # None /\ Truthy(channel_id)) THEN <<>>
    ELSE IF ~Resolves(table, token_id[1]) THEN <<>>
    ELSE <<AdapterCall("get_channel_history")>>
             \o get_channel_history_effects(channel_id[1], DefaultLimit, remote)

\* HomeView.get reads the two tables only
HomeView_get_effects == <<>>

-----------------------------------------------------------------------------
(* What the remote service can answer *)

\* auth.test payloads; team and user may be absent
AuthData ==
    { [team |-> "Test Team", user |-> "testuser", team_id |-> "T1"],
      [team |-> "Test Team", team_id |-> "T1"],
      [user |-> "testuser", team_id |-> "T1"] }

AuthOutcomes == {Ok(d) : d \in AuthData} \cup Failures

PublicChannels ==
    { [id |-> "C1", name |-> "general", is_member |-> TRUE],
      [id |-> "C2", name |-> "random"] }

PrivateChannels ==
    { [id |-> "G1", name |-> "private", is_member |-> FALSE],
      [id |-> "G2", name |-> "ops"] }

DmConversations ==
    { [id |-> "D1", user |-> "U1"],
      [id |-> "D2", user |-> "U2"] }

Users == {"U1", "U2"}

UserInfos ==
    { [user |-> [real_name |-> "Test User", name |-> "testuser"]],
      [user |-> [real_name |-> "", name |-> "bob"]] }

ListOutcomes(pool) ==
    {Ok([channels |-> s]) : s \in SeqsUpTo(pool, MaxConvs)} \cup Failures

LookupOutcomes == {Ok(u) : u \in UserInfos} \cup Failures

\* Remote timestamps, the remote service's message identifiers
TsPool == <<"100.1", "100.2", "100.3", "100.4", "100.5", "100.6">>

\* chat.postMessage payloads: the sender may be absent
PostData ==
    { [ok |-> TRUE, ts |-> TsPool[1], user |-> "U9",
       message |-> [text |-> <<"H", "i">>]],
      [ok |-> TRUE, ts |-> TsPool[2], user |-> "U9"],
      [ok |-> TRUE, ts |-> TsPool[1]] }

PostOutcomes == {Ok(d) : d \in PostData} \cup Failures

\* The entries of a remote history: plain user messages, with and without
\* the optional fields, and entries carrying a subtype
HistoryShapes == {"plain", "thread", "bot", "join", "anonymous"}

RemoteMessage(shape, ts) ==
    CASE shape = "plain" ->
            [type |-> "message", ts |-> ts, text |-> "hello", user |-> "U1"]
      [] shape = "thread" ->
            [type |-> "message", ts |-> ts, text |-> "re", user |-> "U2",
             thread_ts |-> "100.0", reply_count |-> 2]
      [] shape = "bot" ->
            [type |-> "message", subtype |-> "bot_message", ts |-> ts,
             text |-> "beep"]
      [] shape = "join" ->
            [type |-> "message", subtype |-> "channel_join", ts |-> ts,
             text |-> "joined", user |-> "U1"]
      [] shape = "anonymous" ->
            [type |-> "message", ts |-> ts, text |-> "psst"]

\* Histories: entry i carries the i-th timestamp
Histories ==
    { [i \in 1..Len(shapes) |-> RemoteMessage(shapes[i], TsPool[i])] :
        shapes \in SeqsUpTo(HistoryShapes, MaxHist) }

HistoryRemotes == {Ok(h) : h \in Histories} \cup Failures

ChannelIds == {"C1", "C2"}

Limits == 1..MaxLimit

-----------------------------------------------------------------------------
(* SpecService: the adapter's methods called directly. The initial states   *)
(* draw the call (the method, its arguments and what the remote service    *)
(* answers) from the bounded sets above; the one step applies the method.  *)

TestAuthCalls ==
    { [op |-> "test_auth", auth_test |-> auth] : auth \in AuthOutcomes }

GetChannelsCalls ==
    { [op |-> "get_channels",
       conversations_list |->
           [public_channel |-> pub, private_channel |-> priv, im |-> im],
       users_info |-> users_info] :
        pub \in ListOutcomes(PublicChannels),
        priv \in ListOutcomes(PrivateChannels),
        im \in ListOutcomes(DmConversations),
        users_info \in [Users -> LookupOutcomes] }

PostMessageCalls ==
    { [op |-> "post_message", channel_id |-> channel_id,
       text |-> "Test message", chat_postMessage |-> post] :
        channel_id \in ChannelIds, post \in PostOutcomes }

PostReplyCalls ==
    { [op |-> "post_reply", channel_id |-> channel_id,
       thread_ts |-> thread_ts, text |-> "Test reply",
       chat_postMessage |-> post] :
        channel_id \in ChannelIds, thread_ts \in {TsPool[1], TsPool[2]},
        post \in PostOutcomes }

PostThreadReplyCalls ==
    { [op |-> "post_thread_reply", channel_id |-> channel_id,
       thread_ts |-> thread_ts, text |-> "Test reply",
       chat_postMessage |-> post] :
        channel_id \in ChannelIds, thread_ts \in {TsPool[1], TsPool[2]},
        post \in PostOutcomes }

GetChannelHistoryCalls ==
    { [op |-> "get_channel_history", channel_id |-> channel_id,
       limit |-> limit, remote |-> remote] :
        channel_id \in ChannelIds, limit \in Limits,
        remote \in HistoryRemotes }

InitService ==
    /\ tokens = <<>>
    /\ msgs = <<>>
    /\ session = None
    /\ now = 1
    /\ \/ req \in TestAuthCalls
       \/ req \in GetChannelsCalls
       \/ req \in PostMessageCalls
       \/ req \in PostReplyCalls
       \/ req \in PostThreadReplyCalls
       \/ req \in GetChannelHistoryCalls
    /\ svc = NoCall
    /\ resp = NoCall
    /\ pc = <<>>
    /\ effects = <<>>

SvcTestAuth ==
    /\ req.op = "test_auth" /\ svc = NoCall
    /\ svc' = test_auth(req.auth_test)
    /\ effects' = test_auth_effects(req.auth_test)
    /\ UNCHANGED <<tokens, msgs, session, now, req, resp, pc>>

SvcGetChannels ==
    /\ req.op = "get_channels" /\ svc = NoCall
    /\ svc' = get_channels(req.conversations_list, req.users_info)
    /\ effects' = get_channels_effects(req.conversations_list, req.users_info)
    /\ UNCHANGED <<tokens, msgs, session, now, req, resp, pc>>

SvcPostMessage ==
    /\ req.op = "post_message" /\ svc = NoCall
    /\ svc' = post_message(req.channel_id, req.text, req.chat_postMessage)
    /\ effects' = post_message_effects(req.channel_id, req.text,
                                    req.chat_postMessage)
    /\ UNCHANGED <<tokens, msgs, session, now, req, resp, pc>>

SvcPostReply ==
    /\ req.op = "post_reply" /\ svc = NoCall
    /\ svc' = post_reply(req.channel_id, req.thread_ts, req.text,
                         req.chat_postMessage)
    /\ effects' = post_reply_effects(req.channel_id, req.thread_ts, req.text,
                                  req.chat_postMessage)
    /\ UNCHANGED <<tokens, msgs, session, now, req, resp, pc>>

SvcPostThreadReply ==
    /\ req.op = "post_thread_reply" /\ svc = NoCall
    /\ svc' = post_thread_reply(req.channel_id, req.thread_ts, req.text,
                                req.chat_postMessage)
    /\ effects' = post_thread_reply_effects(req.channel_id, req.thread_ts,
                                         req.text, req.chat_postMessage)
    /\ UNCHANGED <<tokens, msgs, session, now, req, resp, pc>>

SvcGetChannelHistory ==
    /\ req.op = "get_channel_history" /\ svc = NoCall
    /\ svc' = get_channel_history(req.channel_id, req.limit, req.remote)
    /\ effects' = get_channel_history_effects(req.channel_id, req.limit,
                                           req.remote)
    /\ UNCHANGED <<tokens, msgs, session, now, req, resp, pc>>

NextService ==
    \/ SvcTestAuth
    \/ SvcGetChannels
    \/ SvcPostMessage
    \/ SvcPostReply
    \/ SvcPostThreadReply
    \/ SvcGetChannelHistory

SpecService == InitService /\ [][NextService]_vars

-----------------------------------------------------------------------------
(* Claims about the adapter, under SpecService *)

PrimaryFetches == {"public_channel", "private_channel", "im"}

\* The remote call of the request (for get_channels: one of the three list
\* calls) failed, by rejection or by any other fault
RemoteFailed(r) ==
    CASE r.op = "test_auth" -> r.auth_test.kind # "ok"
      [] r.op = "get_channels" ->
            \E t \in PrimaryFetches : r.conversations_list[t].kind # "ok"
      [] r.op \in {"post_message", "post_reply", "post_thread_reply"} ->
            r.chat_postMessage.kind # "ok"
      [] r.op = "get_channel_history" -> r.remote.kind # "ok"
      [] OTHER -> FALSE

Called == "none" \notin DOMAIN svc

IsFailureEnvelope(r) ==
    /\ IsEnvelope(r)
    /\ r.success = FALSE
    /\ "error" \in DOMAIN r

\* C1: whatever fault the remote call of an adapter operation produces (a
\* rejection, a network fault, an undecodable response, a programming
\* fault), the caller receives {success: false, error: <string>}; no fault
\* is raised to the caller.
C1_EveryFaultReturnsEnvelope ==
    (Called /\ RemoteFailed(req)) => IsFailureEnvelope(svc)

\* The lookup of the counterpart of direct-message conversation dm succeeded
LookupOk(r, dm) == r.users_info[dm.user].kind = "ok"

FetchesOk(r) ==
    /\ r.op = "get_channels"
    /\ \A t \in PrimaryFetches : r.conversations_list[t].kind = "ok"

Pub(r) == r.conversations_list.public_channel.data.channels
Priv(r) == r.conversations_list.private_channel.data.channels
Ims(r) == r.conversations_list.im.data.channels

HumanName(user_info) ==
    IF user_info.user.real_name # "" THEN user_info.user.real_name
    ELSE user_info.user.name

\* The result has one entry per conversation of the three collections:
\* public, then private, then direct messages, each in remote order
OneEntryPerConversation(r, result) ==
    /\ IsEnvelope(result) /\ result.success
    /\ Len(result.channels) = Len(Pub(r)) + Len(Priv(r)) + Len(Ims(r))
    /\ \A i \in 1..Len(Pub(r)) :
        /\ result.channels[i].id = Pub(r)[i].id
        /\ result.channels[i].type = "public_channel"
    /\ \A i \in 1..Len(Priv(r)) :
        /\ result.channels[Len(Pub(r)) + i].id = Priv(r)[i].id
        /\ result.channels[Len(Pub(r)) + i].type = "private_channel"
    /\ \A i \in 1..Len(Ims(r)) :
        /\ result.channels[Len(Pub(r)) + Len(Priv(r)) + i].id = Ims(r)[i].id
        /\ result.channels[Len(Pub(r)) + Len(Priv(r)) + i].type = "im"

DmName(r, result, i) ==
    result.channels[Len(Pub(r)) + Len(Priv(r)) + i].name

\* C7: when the three list calls succeed and the counterpart lookup fails
\* for some direct-message conversations, get_channels still returns
\* success with one entry per conversation; an entry whose lookup failed is
\* named "@user_<counterpart id>", the others keep the looked-up name.
C7_LookupFailureFallsBack ==
    (Called /\ FetchesOk(req)
        /\ \E i \in 1..Len(Ims(req)) : ~LookupOk(req, Ims(req)[i]))
    => /\ OneEntryPerConversation(req, svc)
       /\ \A i \in 1..Len(Ims(req)) :
            DmName(req, svc, i) =
                IF LookupOk(req, Ims(req)[i])
                THEN "@" \o HumanName(req.users_info[Ims(req)[i].user].data)
                ELSE "@user_" \o Ims(req)[i].user

\* C8: when any one of the three list calls fails, whichever it is and
\* whatever the others return, get_channels returns one envelope with
\* success=false and an error string, and no channel entries.
C8_FetchFailureAbortsWithOneError ==
    (Called /\ req.op = "get_channels" /\ RemoteFailed(req))
    => /\ IsFailureEnvelope(svc)
       /\ "channels" \notin DOMAIN svc

\* C9: when the three list calls succeed, get_channels returns one entry
\* {id, name, type, is_member} per conversation, public then private then
\* direct messages, each group in remote order; public and private names
\* are "#" and the remote name, a direct message's name is "@" and the
\* counterpart's human name.
C9_EntriesCoverAllKinds ==
    (Called /\ FetchesOk(req))
    => /\ OneEntryPerConversation(req, svc)
       /\ \A i \in 1..Len(svc.channels) :
            DOMAIN svc.channels[i] = {"id", "name", "type", "is_member"}
       /\ \A i \in 1..Len(Pub(req)) :
            svc.channels[i].name = "#" \o Pub(req)[i].name
       /\ \A i \in 1..Len(Priv(req)) :
            svc.channels[Len(Pub(req)) + i].name = "#" \o Priv(req)[i].name
       /\ \A i \in 1..Len(Ims(req)) :
            LookupOk(req, Ims(req)[i]) =>
                DmName(req, svc, i) =
                    "@" \o HumanName(req.users_info[Ims(req)[i].user].data)

HasSubtypeMarker(message) == "subtype" \in DOMAIN message

FirstFailure(r) ==
    CASE r.op = "test_auth" -> r.auth_test
      [] r.op = "get_channels" ->
            IF r.conversations_list.public_channel.kind # "ok"
            THEN r.conversations_list.public_channel
            ELSE IF r.conversations_list.private_channel.kind # "ok"
            THEN r.conversations_list.private_channel
            ELSE r.conversations_list.im
      [] r.op \in {"post_message", "post_reply", "post_thread_reply"} ->
            r.chat_postMessage
      [] r.op = "get_channel_history" -> r.remote

\* C19: for every adapter operation, a failure that is not an explicit
\* remote rejection yields the error string "Unexpected error: " followed
\* by the fault's message, and an explicit rejection yields the remote's
\* message without that prefix.
C19_FaultsCarryGenericPrefix ==
    (Called /\ RemoteFailed(req)) =>
        /\ IsFailureEnvelope(svc)
        /\ svc.error =
              IF FirstFailure(req).kind = "fault"
              THEN "Unexpected error: " \o FirstFailure(req).msg
              ELSE FirstFailure(req).msg

\* C20: post_reply and post_thread_reply are one operation: for every
\* channel id, parent timestamp, text and remote behaviour, both pass the
\* same channel, text and parent timestamp to the one remote post call,
\* and the envelope either returns is the envelope the other returns.
C20_ReplyEntryPointsAgree ==
    (Called /\ req.op \in {"post_reply", "post_thread_reply"}) =>
        /\ post_reply_request(req.channel_id, req.thread_ts, req.text) =
               post_thread_reply_request(req.channel_id, req.thread_ts,
                                         req.text)
        /\ svc = IF req.op = "post_reply"
                 THEN post_thread_reply(req.channel_id, req.thread_ts,
                                        req.text, req.chat_postMessage)
                 ELSE post_reply(req.channel_id, req.thread_ts, req.text,
                                 req.chat_postMessage)

-----------------------------------------------------------------------------
(* SpecModels: rows created through the model layer, as the model tests    *)
(* do, with every value the thread_ts column admits (null=True,            *)
(* blank=True: None, the empty string, a timestamp)                        *)

RowTs == {TsPool[i] : i \in 1..MaxRows}

ThreadTsValues == {None, Some(""), Some(TsPool[1]), Some(TsPool[2])}

InitModels ==
    /\ tokens = <<>>
    /\ msgs = <<>>
    /\ session = None
    /\ now = 1
    /\ req = NoRequest
    /\ svc = NoCall
    /\ resp = NoCall
    /\ pc = <<>>
    /\ effects = <<>>

ModelCreate ==
    \E message_ts \in RowTs, thread_ts \in ThreadTsValues :
        LET row == SlackMessage("C1", "general", message_ts, "text",
                                thread_ts, "U1", now)
            created == objects_create(msgs, row)
        IN  /\ Len(msgs) < MaxRows
            /\ msgs' = created.table
            /\ resp' = [created |-> created.error = None]
            /\ UNCHANGED <<tokens, session, now, req, svc, pc, effects>>

NextModels == ModelCreate

SpecModels == InitModels /\ [][NextModels]_vars

\* C5: a stored message is classified as a reply iff its thread_ts is not
\* None, and a message whose thread_ts is not None has no replies of its
\* own, whatever else is stored.
C5_ReplyIffThreadTs ==
    \A i \in 1..Len(msgs) :
        /\ is_thread_reply(msgs[i]) <=> msgs[i].thread_ts # None
        /\ msgs[i].thread_ts # None => get_replies(msgs, msgs[i]) = {}

\* C6: for a stored message p whose thread_ts is None, get_replies(p) is
\* exactly the set of stored messages whose thread_ts is p's message_ts:
\* none of them is missing, and nothing else is included.
C6_RepliesOfParent ==
    \A i \in 1..Len(msgs) :
        msgs[i].thread_ts = None =>
            \A j \in 1..Len(msgs) :
                (j \in get_replies(msgs, msgs[i]))
                    <=> (msgs[j].thread_ts # None
                         /\ msgs[j].thread_ts[1] = msgs[i].message_ts)

\* A parent with a reply, stored beside a message that is no reply to it
C6_Witness ==
    \E i, j, k \in 1..Len(msgs) :
        /\ msgs[i].thread_ts = None
        /\ j \in get_replies(msgs, msgs[i])
        /\ k # i /\ k \notin get_replies(msgs, msgs[i])

-----------------------------------------------------------------------------
(* Spec: the handlers, one request at a time. A request arrives (Request   *)
(* draws its fields and the answers of the remote service from bounded     *)
(* sets) and the handler of its route handles it in one step.              *)

TokenInputs ==
    { None, Some(<<" ">>), Some(<<"x", "o", "x", "b">>),
      Some(<<" ", "x", "o", "x", "b", " ">>) }

NameInputs == { None, Some(<<"m", "y">>), Some(<<" ", "m", "y", " ">>) }

TokenIdInputs == {None} \cup {Some(i) : i \in 1..(MaxTokens + 1)}

ChannelIdInputs == { None, Some("C1") }

ChannelNameInputs == { None, Some("general") }

TextInputs ==
    { None, Some(<<" ">>), Some(<<"h", "i">>), Some(<<" ", "h", "i", " ">>) }

\* What the remote service answers to the calls of one get_channels
ChannelAnswers ==
    LET one(pool, id) == Ok([channels |-> <<CHOOSE c \in pool : c.id = id>>])
        lists == [public_channel |-> one(PublicChannels, "C1"),
                  private_channel |-> one(PrivateChannels, "G1"),
                  im |-> one(DmConversations, "D1")]
        found == [u \in Users |->
                    Ok(CHOOSE i \in UserInfos : i.user.real_name # "")]
        rejected == ApiError("The request to the Slack API failed.")
    IN  { [conversations_list |-> lists, users_info |-> found],
          [conversations_list |-> lists,
           users_info |-> [found EXCEPT !["U1"] = rejected]],
          [conversations_list |-> [lists EXCEPT !.public_channel = rejected],
           users_info |-> found],
          [conversations_list |->
               [lists EXCEPT !.im = Fault("Connection error")],
           users_info |-> found] }

TokenRequests ==
    { [op |-> "TokenView.post", token |-> token, name |-> name,
       auth_test |-> auth] :
        token \in TokenInputs, name \in NameInputs, auth \in AuthOutcomes }

ChannelsRequests ==
    { [op |-> "ChannelsView.get", token_id |-> token_id,
       conversations_list |-> answers.conversations_list,
       users_info |-> answers.users_info] :
        token_id \in TokenIdInputs, answers \in ChannelAnswers }

PostMessageRequests ==
    { [op |-> "PostMessageView.post", token_id |-> token_id,
       channel_id |-> channel_id, channel_name |-> channel_name,
       message_text |-> message_text, chat_postMessage |-> post] :
        token_id \in TokenIdInputs, channel_id \in ChannelIdInputs,
        channel_name \in ChannelNameInputs, message_text \in TextInputs,
        post \in PostOutcomes }

PostReplyRequests ==
    { [op |-> "PostReplyView.post", token_id |-> token_id,
       channel_id |-> channel_id, channel_name |-> Some("general"),
       thread_ts |-> thread_ts, reply_text |-> reply_text,
       chat_postMessage |-> post] :
        token_id \in TokenIdInputs, channel_id \in ChannelIdInputs,
        thread_ts \in {None, Some(TsPool[1])},
        reply_text \in {None, Some(<<" ">>), Some(<<" ", "r", "e">>)},
        post \in PostOutcomes }

\* What the remote service answers to the call of one get_channel_history
HistoryAnswers ==
    { Ok(<<RemoteMessage("plain", TsPool[1]), RemoteMessage("bot", TsPool[2])>>),
      ApiError("The request to the Slack API failed."),
      Fault("Connection error") }

MessagesRequests ==
    { [op |-> "MessagesView.get", token_id |-> token_id,
       channel_id |-> channel_id, conversations_history |-> remote] :
        token_id \in TokenIdInputs, channel_id \in ChannelIdInputs,
        remote \in HistoryAnswers }

\* the order the database returns rows of equal created_at in
TieOrders == {"lowest id", "highest id"}

HomeRequests == { [op |-> "HomeView.get", ties |-> ties] : ties \in TieOrders }

Init ==
    /\ tokens = <<>>
    /\ msgs = <<>>
    /\ session = None
    /\ now = 1
    /\ req = NoRequest
    /\ svc = NoCall
    /\ resp = NoCall
    /\ pc = <<>>
    /\ effects = <<>>

Request ==
    /\ req = NoRequest
    /\ now <= MaxClock
    /\ \/ req' \in TokenRequests
       \/ req' \in ChannelsRequests
       \/ req' \in PostMessageRequests
       \/ req' \in PostReplyRequests
       \/ req' \in MessagesRequests
       \/ req' \in HomeRequests
    /\ svc' = NoCall
    /\ resp' = Pending
    /\ effects' = <<>>
    /\ UNCHANGED <<tokens, msgs, session, now, pc>>

\* the clock after a handler that may have read it
Tick(wrote) == IF wrote THEN now + 1 ELSE now

AddCredential ==
    /\ req.op = "TokenView.post" /\ resp = Pending
    /\ LET out == TokenView_post(tokens, session, now, req.token, req.name,
                                 req.auth_test)
       IN  /\ Len(out.tokens) <= MaxTokens
           /\ tokens' = out.tokens
           /\ session' = out.session
           /\ svc' = out.svc
           /\ resp' = out.resp
           /\ now' = Tick(out.tokens # tokens)
    /\ effects' = TokenView_post_effects(req.token, req.auth_test)
    /\ UNCHANGED <<msgs, req, pc>>

ListChannels ==
    /\ req.op = "ChannelsView.get" /\ resp = Pending
    /\ LET out == ChannelsView_get(tokens, now, req.token_id,
                                   req.conversations_list, req.users_info)
       IN  /\ tokens' = out.tokens
           /\ svc' = out.svc
           /\ resp' = out.resp
           /\ now' = Tick(out.tokens # tokens)
    /\ effects' = ChannelsView_get_effects(tokens, req.token_id,
                                           req.conversations_list,
                                           req.users_info)
    /\ UNCHANGED <<msgs, session, req, pc>>

PostMessage ==
    /\ req.op = "PostMessageView.post" /\ resp = Pending
    /\ LET out == PostMessageView_post(tokens, msgs, now, req.token_id,
                                       req.channel_id, req.channel_name,
                                       req.message_text, req.chat_postMessage)
       IN  /\ msgs' = out.msgs
           /\ svc' = out.svc
           /\ resp' = out.resp
           /\ now' = Tick(out.msgs # msgs)
    /\ effects' = PostMessageView_post_effects(tokens, req.token_id,
                                               req.channel_id,
                                               req.message_text,
                                               req.chat_postMessage)
    /\ UNCHANGED <<tokens, session, req, pc>>

PostReply ==
    /\ req.op = "PostReplyView.post" /\ resp = Pending
    /\ LET out == PostReplyView_post(tokens, msgs, now, req.token_id,
                                     req.channel_id, req.channel_name,
                                     req.thread_ts, req.reply_text,
                                     req.chat_postMessage)
       IN  /\ msgs' = out.msgs
           /\ svc' = out.svc
           /\ resp' = out.resp
           /\ now' = Tick(out.msgs # msgs)
    /\ effects' = PostReplyView_post_effects(tokens, req.token_id,
                                             req.channel_id, req.thread_ts,
                                             req.reply_text,
                                             req.chat_postMessage)
    /\ UNCHANGED <<tokens, session, req, pc>>

ListMessages ==
    /\ req.op = "MessagesView.get" /\ resp = Pending
    /\ LET out == MessagesView_get(tokens, req.token_id, req.channel_id,
                                   req.conversations_history)
       IN  /\ svc' = out.svc
           /\ resp' = out.resp
    /\ effects' = MessagesView_get_effects(tokens, req.token_id,
                                           req.channel_id,
                                           req.conversations_history)
    /\ UNCHANGED <<tokens, msgs, session, now, req, pc>>

Dashboard ==
    /\ req.op = "HomeView.get" /\ resp = Pending
    /\ resp' = HomeView_get(tokens, msgs, req.ties)
    /\ effects' = HomeView_get_effects
    /\ UNCHANGED <<tokens, msgs, session, now, req, svc, pc>>

\* The response is sent: the request is over
Respond ==
    /\ req # NoRequest /\ resp # Pending
    /\ req' = NoRequest
    /\ svc' = NoCall
    /\ resp' = NoCall
    /\ effects' = <<>>
    /\ UNCHANGED <<tokens, msgs, session, now, pc>>

\* A stored credential is deactivated: is_active is set to False. No handler
\* does it; the row is edited outside the handlers.
Deactivate ==
    /\ req = NoRequest
    /\ \E i \in 1..Len(tokens) :
        /\ tokens[i].is_active
        /\ tokens' = [tokens EXCEPT ![i].is_active = FALSE]
    /\ UNCHANGED <<msgs, session, now, req, svc, resp, pc, effects>>

Next ==
    \/ Request
    \/ AddCredential
    \/ ListChannels
    \/ PostMessage
    \/ PostReply
    \/ ListMessages
    \/ Dashboard
    \/ Respond
    \/ Deactivate

Spec == Init /\ [][Next]_vars

-----------------------------------------------------------------------------
(* Claims about the handlers, under Spec *)

\* The step in which the handler of route op answers the pending request
Handles(op) == req.op = op /\ resp = Pending

AdapterSucceeded(result) == IsEnvelope(result) /\ result.success

\* table2 is table with exactly one row added
OneRowAdded(table, table2) ==
    /\ Len(table2) = Len(table) + 1
    /\ SubSeq(table2, 1, Len(table)) = table

\* C2: for an AddCredential request with a non-empty token: if
\* authenticate() succeeds, exactly one StoredCredential is created, whose
\* team and user labels are the payload's team and user fields (empty when
\* the payload has none); if it fails, the stored credentials are unchanged.
C2_CredentialStoredIffAuthenticated ==
    [][ (Handles("TokenView.post") /\ Field(req.token) # <<>>) =>
          IF AdapterSucceeded(svc')
          THEN /\ OneRowAdded(tokens, tokens')
               /\ LET created == tokens'[Len(tokens')]
                      payload == req.auth_test.data
                  IN  /\ created.team_name =
                            IF "team" \in DOMAIN payload THEN payload.team
                            ELSE ""
                      /\ created.user_name =
                            IF "user" \in DOMAIN payload THEN payload.user
                            ELSE ""
          ELSE tokens' = tokens ]_vars

\* A credential stored by a request whose authentication succeeded, with
\* the labels of the payload
C2_Witness ==
    /\ req.op = "TokenView.post" /\ resp # Pending
    /\ AdapterSucceeded(svc)
    /\ Len(tokens) = 1
    /\ tokens[1].team_name = "Test Team"
    /\ tokens[1].user_name = "testuser"

IsRedirectHome(response) ==
    "to" \in DOMAIN response /\ response.to = "home"

\* C3: for a PostMessage request with a resolving credential, a channel id
\* and non-empty text (the text as the handler reads it, trimmed): if
\* post_message succeeds, exactly one StoredMessage is persisted, with the
\* timestamp and the sender of the adapter's result (the placeholder when
\* it names no sender), the submitted channel id and text and no parent
\* timestamp; if the adapter fails, none is persisted; in both cases the
\* handler redirects to the dashboard.
C3_MessageStoredIffPosted ==
    [][ (/\ Handles("PostMessageView.post")
         /\ req.token_id # None /\ Resolves(tokens, req.token_id[1])
         /\ Truthy(req.channel_id)
         /\ Field(req.message_text) # <<>>) =>
          /\ IsRedirectHome(resp')
          /\ IF AdapterSucceeded(svc')
             THEN /\ OneRowAdded(msgs, msgs')
                  /\ LET stored == msgs'[Len(msgs')]
                         message == svc'.message
                     IN  /\ stored.message_ts = message.ts
                         /\ stored.user_id =
                               IF "user" \in DOMAIN message THEN message.user
                               ELSE "bot"
                         /\ stored.channel_id = req.channel_id[1]
                         /\ stored.text = Field(req.message_text)
                         /\ stored.thread_ts = None
             ELSE msgs' = msgs ]_vars

\* The handlers that take a credential id
TakesCredentialId ==
    req.op \in {"ChannelsView.get", "PostMessageView.post",
                "PostReplyView.post", "MessagesView.get"}

\* Every input the handler of the pending request requires is present:
\* the token and the texts non-empty once trimmed, the ids and the parent
\* timestamp given
InputsPresent ==
    CASE req.op = "TokenView.post" -> Field(req.token) # <<>>
      [] req.op = "ChannelsView.get" -> req.token_id # None
      [] req.op = "PostMessageView.post" ->
            /\ req.token_id # None /\ Truthy(req.channel_id)
            /\ Field(req.message_text) # <<>>
      [] req.op = "PostReplyView.post" ->
            /\ req.token_id # None /\ Truthy(req.channel_id)
            /\ Truthy(req.thread_ts) /\ Field(req.reply_text) # <<>>
      [] req.op = "MessagesView.get" ->
            req.token_id # None /\ Truthy(req.channel_id)
      [] OTHER -> TRUE

\* The credential id of the pending request is given and resolves to no
\* active StoredCredential
IdDoesNotResolve ==
    /\ TakesCredentialId /\ resp = Pending
    /\ req.token_id # None
    /\ ~\E i \in 1..Len(tokens) : i = req.token_id[1] /\ tokens[i].is_active

\* The invalid-token error: the structured failure of the data-fetching
\* handlers, the notice of the form-submitting ones
InvalidTokenError(response) ==
    IF req.op \in {"ChannelsView.get", "MessagesView.get"}
    THEN response = JsonResponse([success |-> FALSE, error |-> "Invalid token"])
    ELSE response = Redirect("error", "Invalid token selected.")

NothingStored == tokens' = tokens /\ msgs' = msgs

\* C11 as stated: for every handler that takes a credential id, whenever
\* the id does not resolve to an active StoredCredential the handler
\* reports the invalid-token error, calls no adapter method and changes no
\* stored record.
C11_UnresolvedIdReportsInvalidToken ==
    [][ IdDoesNotResolve =>
          /\ InvalidTokenError(resp')
          /\ svc' = NoCall
          /\ NothingStored ]_vars

\* C11 amended: for every handler that takes a credential id, whenever the
\* handler's required inputs are all present and the id does not resolve
\* to an active StoredCredential (unknown id, or inactive credential), the
\* handler reports the invalid-token error, calls no adapter method and
\* changes no stored record, the last-used timestamps included.
C11_UnresolvedIdAfterValidation ==
    [][ (IdDoesNotResolve /\ InputsPresent) =>
          /\ InvalidTokenError(resp')
          /\ svc' = NoCall
          /\ NothingStored ]_vars

\* A post with every input present whose credential is stored but
\* inactive was answered with the invalid-token notice
C11_Witness ==
    /\ req.op = "PostMessageView.post"
    /\ req.token_id # None /\ req.token_id[1] \in 1..Len(tokens)
    /\ ~tokens[req.token_id[1]].is_active
    /\ Truthy(req.channel_id) /\ Field(req.message_text) # <<>>
    /\ resp = Redirect("error", "Invalid token selected.")
    /\ svc = NoCall

\* The validation error of the pending request's handler
ValidationError(response) ==
    CASE req.op = "TokenView.post" ->
            response = Redirect("error", "Please provide a valid Slack token.")
      [] req.op = "ChannelsView.get" ->
            response = JsonResponse(
                [success |-> FALSE, error |-> "No token selected"])
      [] req.op \in {"PostMessageView.post", "PostReplyView.post"} ->
            response = Redirect("error", "Please fill in all required fields.")
      [] req.op = "MessagesView.get" ->
            response = JsonResponse(
                [success |-> FALSE, error |-> "Missing parameters"])
      [] OTHER -> FALSE

\* C12: for every handler, when a required input is missing or empty (token
\* or text empty after trimming, credential id, channel id or parent
\* timestamp absent) the handler reports its validation error, calls no
\* adapter method and changes no stored record nor the session.
C12_MissingInputIsValidationError ==
    [][ (resp = Pending /\ ~InputsPresent) =>
          /\ ValidationError(resp')
          /\ svc' = NoCall
          /\ NothingStored
          /\ session' = session ]_vars

\* A post whose text is only whitespace was refused while a credential
\* that resolves was stored
C12_Witness ==
    /\ req.op = "PostMessageView.post"
    /\ req.token_id # None /\ Resolves(tokens, req.token_id[1])
    /\ Truthy(req.channel_id)
    /\ req.message_text = Some(<<" ">>)
    /\ resp = Redirect("error", "Please fill in all required fields.")
    /\ svc = NoCall /\ msgs = <<>>

\* C13: ListMessages answers {success: false, error: "Missing parameters"}
\* when the credential id or the channel id is missing; with both present
\* and a credential id that does not resolve it answers {success: false,
\* error: "Invalid token"}; otherwise it calls get_channel_history once and
\* answers with its result. Neither error case calls the adapter, and the
\* parameter check comes first.
C13_ListMessagesChecksThenDelegates ==
    [][ Handles("MessagesView.get") =>
          IF ~(req.token_id # None /\ Truthy(req.channel_id))
          THEN /\ svc' = NoCall
               /\ resp' = JsonResponse(
                      [success |-> FALSE, error |-> "Missing parameters"])
          ELSE IF ~Resolves(tokens, req.token_id[1])
          THEN /\ svc' = NoCall
               /\ resp' = JsonResponse(
                      [success |-> FALSE, error |-> "Invalid token"])
          ELSE /\ svc' # NoCall
               /\ IsEnvelope(svc')
               /\ resp' = JsonResponse(svc') ]_vars

\* C14: PostReply, when post_reply succeeds, persists exactly one
\* StoredMessage whose parent timestamp is the submitted one and whose
\* remote timestamp is the one the adapter returned; on adapter failure,
\* missing fields or a credential that does not resolve it persists
\* nothing and redirects to the dashboard.
C14_ReplyStoredIffPosted ==
    [][ Handles("PostReplyView.post") =>
          IF AdapterSucceeded(svc')
          THEN /\ OneRowAdded(msgs, msgs')
               /\ msgs'[Len(msgs')].thread_ts = req.thread_ts
               /\ msgs'[Len(msgs')].message_ts = svc'.message.ts
          ELSE /\ msgs' = msgs
               /\ IsRedirectHome(resp') ]_vars

\* "Token " followed by count + 1, written out
ExpectedDefaultName(count) ==
    <<"T", "o", "k", "e", "n", " ",
      <<"1", "2", "3", "4", "5", "6", "7", "8", "9">>[count + 1]>>

\* An AddCredential request with a valid token stores a credential
StoresCredential ==
    /\ Handles("TokenView.post")
    /\ Field(req.token) # <<>>
    /\ AdapterSucceeded(svc')

\* C15 as stated: the credential stored for a request with a valid token
\* and no name (empty after trimming) is named "Token " followed by the
\* number of credentials existing when the request is handled plus one;
\* a supplied non-empty name is stored unchanged.
C15_DefaultNameElseUnchanged ==
    [][ StoresCredential =>
          tokens'[Len(tokens')].name =
              IF Field(req.name) = <<>>
              THEN ExpectedDefaultName(Len(tokens))
              ELSE req.name[1] ]_vars

\* C15 amended: the credential stored for a request with a valid token and
\* no name (empty after trimming) is named "Token " followed by the number
\* of credentials existing when the request is handled plus one; a
\* supplied name that is not empty after trimming is stored with its
\* surrounding whitespace trimmed.
C15_DefaultNameElseTrimmed ==
    [][ StoresCredential =>
          tokens'[Len(tokens')].name =
              IF Field(req.name) = <<>>
              THEN ExpectedDefaultName(Len(tokens))
              ELSE strip(req.name[1]) ]_vars

\* A second credential was stored by a request that gave no name, and a
\* first one by a request whose name had surrounding whitespace
C15_Witness ==
    /\ req.op = "TokenView.post" /\ resp # Pending
    /\ req.name = None
    /\ Len(tokens) = 2
    /\ tokens[2].name = <<"T", "o", "k", "e", "n", " ", "2">>
    /\ tokens[1].name = <<"m", "y">>

\* C16: ListChannels with a credential id that resolves to an active
\* StoredCredential stamps that credential's last-used timestamp with the
\* current time and answers with exactly the envelope get_channels
\* produced, whether it reports success or failure.
C16_StampsAndRelaysEnvelope ==
    [][ (/\ Handles("ChannelsView.get")
         /\ req.token_id # None /\ Resolves(tokens, req.token_id[1])) =>
          /\ tokens'[req.token_id[1]].last_used = Some(now)
          /\ IsEnvelope(svc')
          /\ resp' = JsonResponse(svc') ]_vars

\* The pending request is a read of one of the routes ops, performed with
\* a credential that resolves
ReadPerformed(ops) ==
    /\ resp = Pending /\ req.op \in ops
    /\ InputsPresent
    /\ Resolves(tokens, req.token_id[1])

\* In this step, a read of the routes ops writes the current time to the
\* last-used timestamp of its credential, and no other last-used
\* timestamp changes; a credential created in this step has none.
LastUsedFollowsReads(ops) ==
    /\ ReadPerformed(ops) => tokens'[req.token_id[1]].last_used = Some(now)
    /\ \A i \in 1..Len(tokens') :
          ~(ReadPerformed(ops) /\ i = req.token_id[1]) =>
              tokens'[i].last_used =
                  IF i <= Len(tokens) THEN tokens[i].last_used ELSE None

-----------------------------------------------------------------------------
(* SpecHome: the dashboard over a filled store. The initial states draw    *)
(* the stored credentials, active or not, and up to MaxMsgs stored         *)
(* messages, some created at the same time; the one step is HomeView.get.  *)

\* str(n) as a string
RECURSIVE Decimal(_)
Decimal(n) ==
    IF n < 10 THEN Digit(n) ELSE Decimal(n \div 10) \o Digit(n % 10)

\* The creation times of the rows: all different, or equal two by two
CreationTimes ==
    { [i \in 1..MaxMsgs |-> i],
      [i \in 1..MaxMsgs |-> (i + 1) \div 2],
      [i \in 1..MaxMsgs |-> (i \div 2) + 1] }

\* Stored messages, in the order they were created
HomeMessages ==
    { [i \in 1..n |->
          SlackMessage("C1", "general", "200." \o Decimal(i), <<"h", "i">>,
                       None, "U9", times[i])] :
        n \in 0..MaxMsgs, times \in CreationTimes }

\* Stored credentials, each active or not
HomeTokens ==
    { [i \in 1..n |->
          [SlackToken(TokenName(i), <<"x", "o", "x", "b">>, "Test Team",
                      "testuser", i) EXCEPT !.is_active = active[i]]] :
        n \in 0..MaxTokens, active \in [1..MaxTokens -> BOOLEAN] }

InitHome ==
    /\ tokens \in HomeTokens
    /\ msgs \in HomeMessages
    /\ session = None
    /\ now = MaxMsgs + 1
    /\ req \in HomeRequests
    /\ svc = NoCall
    /\ resp = Pending
    /\ pc = <<>>
    /\ effects = <<>>

NextHome == Dashboard

SpecHome == InitHome /\ [][NextHome]_vars

\* The elements of a sequence, which has no element twice
Elements(seq) == {seq[k] : k \in 1..Len(seq)}

NoRepeats(seq) == Cardinality(Elements(seq)) = Len(seq)

\* C18: in every state of the store the dashboard hands to the template
\* exactly the StoredCredentials whose active flag is true, and at most 20
\* StoredMessages: the 20 with the newest creation timestamps, newest
\* first, or all of them when fewer than 20 are stored; it calls no
\* adapter method and changes no stored record.
C18_DashboardShowsActiveAndNewest ==
    [][ Handles("HomeView.get") =>
          LET shown == resp'.context.recent_messages
              creds == resp'.context.tokens
          IN  /\ NoRepeats(creds)
              /\ Elements(creds) = {i \in 1..Len(tokens) : tokens[i].is_active}
              /\ NoRepeats(shown)
              /\ Elements(shown) \subseteq 1..Len(msgs)
              /\ Len(shown) = IF Len(msgs) < 20 THEN Len(msgs) ELSE 20
              /\ \A k \in 1..(Len(shown) - 1) :
                    msgs[shown[k]].created_at >= msgs[shown[k + 1]].created_at
              /\ \A i \in Elements(shown) :
                    \A j \in (1..Len(msgs)) \ Elements(shown) :
                        msgs[j].created_at <= msgs[i].created_at
              /\ svc' = NoCall
              /\ NothingStored ]_vars

\* The dashboard was shown over more than 20 stored messages, the oldest
\* of which were created at the same time, and over an inactive and an
\* active credential
C18_Witness ==
    /\ req.op = "HomeView.get" /\ resp # Pending
    /\ Len(msgs) = 22
    /\ msgs[2].created_at = msgs[3].created_at
    /\ Len(resp.context.recent_messages) = 20
    /\ resp.context.recent_messages[1] = 22
    /\ Len(tokens) = 2
    /\ ~tokens[1].is_active /\ tokens[2].is_active
    /\ resp.context.tokens = <<2>>

-----------------------------------------------------------------------------
(* SpecConcurrent: posts handled by several workers at once, one request   *)
(* per worker. A post is two steps, the remote call (with the validation   *)
(* and the lookup before it) and the insert of the row; the steps of       *)
(* different workers interleave. The remote service may answer two posts   *)
(* with the same timestamp (a post retried by an outside actor). One       *)
(* credential is stored.                                                   *)

Workers == 1..MaxWorkers

ConcurrentPosts ==
    { [op |-> "PostMessageView.post", token_id |-> Some(1),
       channel_id |-> Some("C1"), channel_name |-> Some("general"),
       message_text |-> Some(<<"h", "i">>), chat_postMessage |-> post] :
        post \in PostOutcomes }

ConcurrentReplies ==
    { [op |-> "PostReplyView.post", token_id |-> Some(1),
       channel_id |-> Some("C1"), channel_name |-> Some("general"),
       thread_ts |-> Some(TsPool[1]),
       reply_text |-> Some(<<"r", "e">>), chat_postMessage |-> post] :
        post \in PostOutcomes }

InitConcurrent ==
    /\ tokens = <<SlackToken(<<"m", "y">>, <<"x", "o", "x", "b">>,
                             "Test Team", "testuser", 1)>>
    /\ msgs = <<>>
    /\ session = Some(1)
    /\ now = 2
    /\ req = NoRequest
    /\ svc = NoCall
    /\ resp = NoCall
    /\ pc = [w \in Workers |-> [at |-> "idle"]]
    /\ effects = <<>>

\* The worker's request ended before the insert: it is answered
Answered(w, r, called) ==
    /\ req' = r
    /\ svc' = called.svc
    /\ resp' = called.resp
    /\ UNCHANGED <<tokens, msgs, session, now, pc, effects>>

\* The worker holds the adapter's success and goes on to the insert
Holds(w, r, called) ==
    /\ pc' = [pc EXCEPT ![w] = [at |-> "store", request |-> r,
                                result |-> called.svc]]
    /\ UNCHANGED <<tokens, msgs, session, now, req, svc, resp, effects>>

ConcPostMessageCall(w) ==
    /\ pc[w].at = "idle"
    /\ now <= MaxClock
    /\ \E r \in ConcurrentPosts :
        LET called == PostMessageView_call(tokens, r.token_id, r.channel_id,
                                           r.message_text, r.chat_postMessage)
        IN  IF called.resp = Pending THEN Holds(w, r, called)
            ELSE Answered(w, r, called)

ConcPostReplyCall(w) ==
    /\ pc[w].at = "idle"
    /\ now <= MaxClock
    /\ \E r \in ConcurrentReplies :
        LET called == PostReplyView_call(tokens, r.token_id, r.channel_id,
                                         r.thread_ts, r.reply_text,
                                         r.chat_postMessage)
        IN  IF called.resp = Pending THEN Holds(w, r, called)
            ELSE Answered(w, r, called)

ConcStore(w) ==
    /\ pc[w].at = "store"
    /\ LET r == pc[w].request
           stored ==
               IF r.op = "PostMessageView.post"
               THEN PostMessageView_store(msgs, now, r.channel_id,
                        r.channel_name, r.message_text, pc[w].result)
               ELSE PostReplyView_store(msgs, now, r.channel_id,
                        r.channel_name, r.thread_ts, r.reply_text,
                        pc[w].result)
       IN  /\ msgs' = stored.msgs
           /\ resp' = stored.resp
           /\ req' = r
           /\ svc' = pc[w].result
           /\ now' = Tick(stored.msgs # msgs)
    /\ pc' = [pc EXCEPT ![w] = [at |-> "idle"]]
    /\ UNCHANGED <<tokens, session, effects>>

NextConcurrent ==
    \E w \in Workers :
        \/ ConcPostMessageCall(w)
        \/ ConcPostReplyCall(w)
        \/ ConcStore(w)

SpecConcurrent == InitConcurrent /\ [][NextConcurrent]_vars

UniqueTimestamps ==
    \A i, j \in 1..Len(msgs) :
        i # j => msgs[i].message_ts # msgs[j].message_ts

\* Worker w inserts a row whose timestamp is already stored
DuplicateInsert(w) ==
    /\ pc[w].at = "store" /\ pc'[w].at = "idle"
    /\ \E i \in 1..Len(msgs) : msgs[i].message_ts = pc[w].result.message.ts

\* C4: after any interleaving of PostMessage and PostReply requests, also
\* when two of them hold the same remote timestamp, no two StoredMessages
\* share a timestamp: the insert of a row whose timestamp is already
\* stored fails at the table and leaves the stored messages unchanged.
C4_TimestampsUnique ==
    /\ []UniqueTimestamps
    /\ [][ \A w \in Workers :
             DuplicateInsert(w) =>
                 /\ msgs' = msgs
                 /\ resp' = ServerError("IntegrityError") ]_vars

\* An insert was refused because its timestamp is stored, while another
\* worker still holds the same timestamp for its own insert
C4_Witness ==
    /\ resp = ServerError("IntegrityError")
    /\ \E i \in 1..Len(msgs) : msgs[i].message_ts = svc.message.ts
    /\ \E w \in Workers :
        /\ pc[w].at = "store"
        /\ pc[w].result.message.ts = svc.message.ts

-----------------------------------------------------------------------------
(* Claims about what one request does besides answering *)

AdapterCalls(e) == SelectSeq(e, LAMBDA x : x.layer = "adapter")
RemoteCalls(e) == SelectSeq(e, LAMBDA x : x.layer = "remote")

\* the adapter methods that issue one remote call
SingleCallMethods ==
    {"test_auth", "post_message", "post_reply", "get_channel_history"}

\* what each handler puts before the adapter's error string
ErrorPrefix ==
    "TokenView.post" :> "Invalid token: "
        @@ "PostMessageView.post" :> "Failed to post message: "
        @@ "PostReplyView.post" :> "Failed to post reply: "

\* the response carries the error string of the adapter's failure envelope
ErrorReachesUser ==
    IF req.op \in DOMAIN ErrorPrefix
    THEN resp = Redirect("error", ErrorPrefix[req.op] \o svc.error)
    ELSE resp = JsonResponse(svc) /\ resp.json.error = svc.error

\* C21: every call is single-shot: one handler invocation invokes at most
\* one adapter operation, at most once; a post, authenticate or history
\* operation issues exactly one remote call; when the adapter returns a
\* failure the handler does not call it again and the adapter's error
\* string reaches the user-facing message or JSON payload unchanged.
C21_SingleShot ==
    /\ Len(AdapterCalls(effects)) <= 1
    /\ Called <=> Len(AdapterCalls(effects)) = 1
    /\ \A i \in 1..Len(effects) :
        /\ effects[i].layer = "adapter"
        /\ effects[i].method \in SingleCallMethods
        => Len(RemoteCalls(effects)) = 1
    /\ IsFailureEnvelope(svc) =>
        /\ Len(AdapterCalls(effects)) = 1
        /\ ErrorReachesUser

\* A post was rejected by the remote service: post_message was invoked
\* once, called the service once, and its error is in the redirect's message
C21_Witness ==
    /\ req.op = "PostMessageView.post"
    /\ IsFailureEnvelope(svc)
    /\ Len(effects) = 2
    /\ effects[1] = AdapterCall("post_message")
    /\ effects[2].layer = "remote"
    /\ resp = Redirect("error", "Failed to post message: " \o svc.error)

-----------------------------------------------------------------------------
(* Claims about the two tables across requests *)

PostingOps == {"PostMessageView.post", "PostReplyView.post"}

\* C22: in every state reachable by handler requests, every StoredMessage
\* was created by a PostMessage or PostReply request whose adapter call
\* returned success: the stored messages change only in the step of such a
\* request, by exactly one row that carries the timestamp the post
\* returned; reads and failed or rejected requests create no StoredMessage.
C22_MessagesOnlyFromSuccessfulPosts ==
    [][ msgs' # msgs =>
          /\ resp = Pending
          /\ req.op \in PostingOps
          /\ AdapterSucceeded(svc')
          /\ OneRowAdded(msgs, msgs')
          /\ msgs'[Len(msgs')].message_ts = svc'.message.ts ]_vars

\* A post succeeded and stored its row, after which a rejected post left
\* the table as it was
C22_Witness ==
    /\ req.op \in PostingOps
    /\ IsFailureEnvelope(svc)
    /\ resp # Pending
    /\ Len(msgs) = 1

-----------------------------------------------------------------------------
(* Concurrent ListChannels requests: the handler's load, stamp and save of
   the credential's row, interleaved between workers *)

\* SlackToken.objects.get(id=token_id, is_active=True): the worker's own
\* copy of the row
objects_get(table, token_id) == table[token_id]

\* A variant that also clears the active flag of the copy
stamp_Deactivates(token, clock) ==
    [token EXCEPT !.last_used = Some(clock), !.is_active = FALSE]

\* token.last_used = timezone.now()
stamp(token, clock) == [token EXCEPT !.last_used = Some(clock)]

\* token.save(): every column of the row is written from the copy
save(table, token_id, token) == [table EXCEPT ![token_id] = token]

StampRows ==
    <<SlackToken(<<"m", "y">>, <<"x", "o", "x", "b">>,
                 "Test Team", "testuser", 1),
      [SlackToken(<<"T", "o", "k", "e", "n", " ", "2">>, <<"x", "o", "x", "p">>,
                  "", "", 1) EXCEPT !.last_used = Some(1)]>>

InitStamp ==
    /\ tokens = StampRows
    /\ msgs = <<>>
    /\ session = None
    /\ now = 2
    /\ req = NoRequest
    /\ svc = NoCall
    /\ resp = NoCall
    /\ pc = [w \in Workers |-> [at |-> "idle"]]
    /\ effects = <<>>

ConcLoad(w) ==
    /\ pc[w].at \in {"idle", "saved"}
    /\ now <= MaxClock
    /\ \E token_id \in 1..Len(tokens) :
        /\ Resolves(tokens, token_id)
        /\ pc' = [pc EXCEPT ![w] = [at |-> "loaded", token_id |-> token_id,
                                    token |-> objects_get(tokens, token_id)]]
    /\ UNCHANGED <<tokens, msgs, session, now, req, svc, resp, effects>>

ConcStamp(w) ==
    /\ pc[w].at = "loaded"
    /\ pc' = [pc EXCEPT ![w] = [at |-> "stamped", token_id |-> pc[w].token_id,
                                token |-> stamp(pc[w].token, now)]]
    /\ UNCHANGED <<tokens, msgs, session, now, req, svc, resp, effects>>

ConcSave(w) ==
    /\ pc[w].at = "stamped"
    /\ tokens' = save(tokens, pc[w].token_id, pc[w].token)
    /\ pc' = [pc EXCEPT ![w] = [at |-> "saved", token_id |-> pc[w].token_id,
                                token |-> pc[w].token]]
    /\ UNCHANGED <<msgs, session, now, req, svc, resp, effects>>

\* Time passes between the steps of the workers
Tock ==
    /\ now <= MaxClock
    /\ now' = now + 1
    /\ UNCHANGED <<tokens, msgs, session, req, svc, resp, pc, effects>>

NextStamp ==
    \/ \E w \in Workers : ConcLoad(w)
    \/ \E w \in Workers : ConcStamp(w)
    \/ \E w \in Workers : ConcSave(w)
    \/ Tock

SpecStamp == InitStamp /\ [][NextStamp]_vars

\* every attribute of a credential but last_used
Attributes(token) ==
    [name |-> token.name, token |-> token.token,
     team_name |-> token.team_name, user_name |-> token.user_name,
     is_active |-> token.is_active, created_at |-> token.created_at]

\* C23: when two or more ListChannels requests for the same credential run
\* concurrently in any interleaving of their load, stamp and save steps,
\* the credential's last-used timestamp is always the value written by the
\* request that saved last, and no other attribute of the credential
\* differs from what the requests leave when run one after another, which
\* is what it was before them.
C23_LastWriterWinsNothingElseChanges ==
    /\ [](\A i \in 1..Len(StampRows) :
            /\ Len(tokens) = Len(StampRows)
            /\ Attributes(tokens[i]) = Attributes(StampRows[i]))
    /\ [][ tokens' # tokens =>
             \E w \in Workers :
                 /\ pc[w].at = "stamped" /\ pc'[w].at = "saved"
                 /\ pc[w].token.last_used # None
                 /\ pc[w].token.last_used[1] <= now
                 /\ tokens' = [tokens EXCEPT ![pc[w].token_id].last_used =
                                   pc[w].token.last_used] ]_vars

\* Two requests stamped the same credential at different times and the one
\* with the earlier stamp saved last: the row carries the earlier stamp
C23_Witness ==
    \E w1, w2 \in Workers :
        /\ w1 # w2
        /\ pc[w1].at = "saved" /\ pc[w2].at = "saved"
        /\ pc[w1].token_id = pc[w2].token_id
        /\ pc[w1].token.last_used[1] < pc[w2].token.last_used[1]
        /\ tokens[pc[w1].token_id].last_used = pc[w1].token.last_used

\* C24: in every state reachable by handler requests, every
\* StoredCredential whose active flag is true has a non-empty secret token:
\* a token that is empty or only whitespace is never stored.
C24_ActiveTokenNeverEmpty ==
    \A i \in 1..Len(tokens) :
        tokens[i].is_active =>
            /\ tokens[i].token # <<>>
            /\ \E k \in 1..Len(tokens[i].token) : ~IsSpace(tokens[i].token[k])

\* A token of whitespace only was submitted and refused while an active
\* credential is stored
C24_Witness ==
    /\ req.op = "TokenView.post"
    /\ req.token = Some(<<" ">>)
    /\ resp = Redirect("error", "Please provide a valid Slack token.")
    /\ \E i \in 1..Len(tokens) : tokens[i].is_active

\* C25: the session holds at most one current credential: it is the
\* StoredCredential created by the session's most recent successful
\* AddCredential, or none if there was no such request; an AddCredential
\* that fails authentication or has an empty token, and every other
\* handler, leaves the session's current credential unchanged.
C25_SessionFollowsLastSuccessfulAdd ==
    /\ [](session = None \/ session[1] \in 1..Len(tokens))
    /\ [][ IF Handles("TokenView.post") /\ AdapterSucceeded(svc')
           THEN /\ OneRowAdded(tokens, tokens')
                /\ session' = Some(Len(tokens'))
           ELSE session' = session ]_vars

\* After a successful AddCredential a second one was rejected by the
\* remote service: the first credential is still the current one
C25_Witness ==
    /\ req.op = "TokenView.post"
    /\ IsFailureEnvelope(svc)
    /\ resp # Pending
    /\ session = Some(1)
    /\ Len(tokens) = 1

\* table2 holds every row of table, in place, and possibly more
Grown(table, table2) ==
    /\ Len(table2) >= Len(table)
    /\ \A i \in 1..Len(table) : table2[i] = table[i]

\* the rows with last_used blanked
SansLastUsed(table) ==
    [i \in 1..Len(table) |-> [table[i] EXCEPT !.last_used = None]]

\* C26: no handler deletes a StoredCredential or a StoredMessage, and no
\* handler changes any attribute of an already stored record other than a
\* credential's last-used timestamp: across the step of every handler the
\* stored credentials and stored messages only grow and every stored
\* message keeps the attributes it was created with.
C26_HandlersOnlyAddAndStamp ==
    [][ resp = Pending =>
          /\ Grown(msgs, msgs')
          /\ Grown(SansLastUsed(tokens), SansLastUsed(tokens')) ]_vars

\* A post came back with a timestamp that an earlier request stored: the
\* insert was refused and the stored row is as it was
C26_Witness ==
    /\ req.op = "PostMessageView.post"
    /\ resp = ServerError("IntegrityError")
    /\ \E i \in 1..Len(msgs) :
        /\ msgs[i].message_ts = svc.message.ts
        /\ msgs[i].created_at < now

-----------------------------------------------------------------------------
(* Claims about the entries get_channel_history returns *)

\* the entries of the remote history the service hands out for the limit
Fetched(r) == SubSeq(r.remote.data, 1, Min(r.limit, Len(r.remote.data)))

\* the plain user messages among them, in the remote's order
Retained(r) ==
    SelectSeq(Fetched(r),
              LAMBDA m : /\ "type" \in DOMAIN m
                         /\ m.type = "message"
                         /\ ~HasSubtypeMarker(m))

\* the value of a field of the remote entry, null when the entry has none
Nullable(m, k) == IF k \in DOMAIN m THEN <<m[k]>> ELSE <<>>

\* C27: for every remote history response, get_channel_history returns
\* the retained plain user messages in the remote's order, each as
\* {ts, text, user, thread_ts, reply_count} copied from the remote entry,
\* with thread_ts null when the remote entry has none and reply_count 0
\* when the remote entry has none; a remote entry lacking optional fields
\* never turns the result into a failure.
C27_HistoryEntriesCopied ==
    (Called /\ req.op = "get_channel_history" /\ req.remote.kind = "ok")
    => /\ IsEnvelope(svc)
       /\ svc.success
       /\ Len(svc.messages) = Len(Retained(req))
       /\ \A i \in 1..Len(svc.messages) :
            LET entry == svc.messages[i]
                message == Retained(req)[i]
            IN  /\ DOMAIN entry =
                       {"ts", "text", "user", "thread_ts", "reply_count"}
                /\ entry.ts = message.ts
                /\ entry.text = message.text
                /\ entry.user = Nullable(message, "user")
                /\ entry.thread_ts = Nullable(message, "thread_ts")
                /\ entry.reply_count =
                       IF "reply_count" \in DOMAIN message
                       THEN message.reply_count ELSE 0

\* A history whose retained entries are one without sender, parent and
\* reply count and, after it, one with all three
C27_Witness ==
    /\ Called /\ req.op = "get_channel_history"
    /\ IsEnvelope(svc) /\ svc.success
    /\ Len(svc.messages) = 2
    /\ svc.messages[1].user = None
    /\ svc.messages[1].thread_ts = None
    /\ svc.messages[1].reply_count = 0
    /\ svc.messages[2].thread_ts = Some("100.0")
    /\ svc.messages[2].reply_count = 2
    /\ \E j \in 1..Len(Fetched(req)) : HasSubtypeMarker(Fetched(req)[j])

-----------------------------------------------------------------------------
(* Claims about the log *)

LogRecord(level, operation, subject) ==
    [layer |-> "log", level |-> level, operation |-> operation,
     subject |-> subject]

LogsAt(level) ==
    SelectSeq(effects, LAMBDA x : x.layer = "log" /\ x.level = level)

LoggedOps == {"test_auth", "get_channels", "post_message"}

\* the direct-message conversations whose counterpart lookup failed, when
\* the three list calls succeeded
FailedLookups(r) ==
    IF r.op = "get_channels" /\ ~RemoteFailed(r)
    THEN SelectSeq(r.conversations_list.im.data.channels,
                   LAMBDA dm : r.users_info[dm.user].kind # "ok")
    ELSE <<>>

\* C28: every failing adapter call is logged before its failure envelope
\* is returned: a rejection or fault of the remote call in test_auth,
\* get_channels or post_message emits exactly one error-level log record
\* naming the operation (and the channel id for post_message), and a
\* failed counterpart lookup inside get_channels emits one warning-level
\* record naming the counterpart id and no error-level record.
C28_FailuresAreLogged ==
    (Called /\ req.op \in LoggedOps)
    => /\ RemoteFailed(req) =>
            LogsAt("error") =
                <<LogRecord("error", req.op,
                      IF req.op = "post_message" THEN req.channel_id ELSE "")>>
       /\ FailedLookups(req) # <<>> =>
            /\ LogsAt("warning") =
                   [i \in 1..Len(FailedLookups(req)) |->
                       LogRecord("warning", req.op, FailedLookups(req)[i].user)]
            /\ LogsAt("error") = <<>>

-----------------------------------------------------------------------------
(* Claims about the row a PostMessage request stores *)

\* C29: a PostMessage request that omits the channel display name but is
\* otherwise valid and succeeds remotely stores the message with the
\* display name "Channel <channel id>", and the stored text is always the
\* submitted text with surrounding whitespace removed, never text taken
\* from the remote response.
C29_DefaultChannelNameAndSubmittedText ==
    [][ (Handles("PostMessageView.post") /\ msgs' # msgs) =>
          LET row == msgs'[Len(msgs')]
          IN  /\ row.text = strip(req.message_text[1])
              /\ row.channel_id = req.channel_id[1]
              /\ req.channel_name = None =>
                     row.channel_name = "Channel " \o req.channel_id[1]
              /\ req.channel_name # None =>
                     row.channel_name = req.channel_name[1] ]_vars

\* A post without display name and with padded text succeeded, the remote
\* service answering with a text of its own
C29_Witness ==
    /\ req.op = "PostMessageView.post"
    /\ req.channel_name = None
    /\ req.message_text = Some(<<" ", "h", "i", " ">>)
    /\ resp = Redirect("success", "Message posted successfully!")
    /\ "message" \in DOMAIN svc.message
    /\ svc.message.message.text # <<"h", "i">>
    /\ msgs[Len(msgs)].channel_name = "Channel C1"
    /\ msgs[Len(msgs)].text = <<"h", "i">>

====
